---- MODULE Spec2Model ----
(***************************************************************************)
(* FlaggyClient (client.ts) together with the connection life cycle of     *)
(* its SSEManager (sse.ts).                                                *)
(*                                                                         *)
(* JavaScript runs one task at a time, so every action below is one task   *)
(* of the event loop run to completion: a public method call up to its     *)
(* first await, or the continuation of an await once the awaited promise   *)
(* has settled.  Listeners are observers: what they can see while they run *)
(* is recorded in the emission (the cache and readiness at that moment).   *)
(***************************************************************************)
EXTENDS Integers, Sequences, FiniteSets, TLC

\* ------------------------------------------------------------------ bounds

\* Total number of batch requests (initialize, setContext, stream-triggered)
\* issued in one behaviour.
MaxRequests == 2

\* Cap on SSEManager.retryCount (the code's counter is unbounded).
MaxRetry == 1

\* Connection attempts made by an SSEManager driven directly, those its
\* pending timers will make included.
MaxConnects == 4

\* Number of frames in one chunk of a stream read by a manager.
MaxChunkFrames == 2

\* Number of frames in the body of a stream.
MaxFrames == 2

\* Value of the retry counter when reconnect() is called.
MaxRetryCount == 1016

\* Length of options.serverUrl, in characters.
MaxUrlLen == 6

\* Number of times the context prop of a provider changes.
MaxProps == 2

\* Number of unsubscribe closures callers hold at one time.
MaxSubscriptions == 2

\* ----------------------------------------------------------------- values

Keys == {"a", "b"}

\* EvaluationContext is opaque to the client (stored and sent, never
\* inspected): context 0 is options.context and context n the argument of
\* the n-th setContext call, each a different context.
InitialContext == 0

\* FlagValue (types.ts): primitives compare by value, objects by reference.
\* kind "undefined" is JavaScript's undefined (Map.get of a missing key, and
\* the value carried by change events for removed keys).
UNDEFINED == [kind |-> "undefined", v |-> "", ref |-> 0]

\* Values as they appear on the wire (JSON text): two primitives and one
\* object structure.
WireValues == {[kind |-> "prim", v |-> "x"],
               [kind |-> "prim", v |-> "y"],
               [kind |-> "obj", v |-> "o"]}

\* The declared flag keys, in the order of the flags array of the request.
FlagOrder == <<"a", "b">>

\* A batch response body: results, at most one entry per requested flag key,
\* in the order of the request.
WireResults ==
    {s \in UNION {[1..n -> [flag_key : Keys, value : WireValues]] : n \in 0..2} :
        \A i, j \in 1..Len(s) :
            i < j => \E p, q \in 1..Len(FlagOrder) :
                        p < q /\ FlagOrder[p] = s[i].flag_key /\ FlagOrder[q] = s[j].flag_key}

\* response.json(): every object of the JSON text becomes a fresh object: its
\* reference differs from that of the other objects of the response and from
\* every object still alive (live: the references held by the cache).
FreshRef(live, i) ==
    CHOOSE n \in 1..(Cardinality(live) + i) :
        Cardinality({m \in 1..n : m \notin live}) = i

ParseValue(w, live, i) ==
    IF w.kind = "obj"
    THEN [kind |-> "obj", v |-> w.v, ref |-> FreshRef(live, i)]
    ELSE [kind |-> "prim", v |-> w.v, ref |-> 0]

ParseJson(wire, live) ==
    [i \in 1..Len(wire) |->
        [flag_key |-> wire[i].flag_key, value |-> ParseValue(wire[i].value, live, i)]]

\* Mutant of StrictEquals: deep (structural) equality.
StructuralEquals(x, y) == x.kind = y.kind /\ x.v = y.v

\* JavaScript === on FlagValue | undefined.
StrictEquals(x, y) ==
    IF x.kind = "obj" /\ y.kind = "obj"
    THEN x.ref = y.ref
    ELSE x.kind = y.kind /\ x.v = y.v

\* ----------------------------------------------------------------- errors

NoError      == [isError |-> FALSE, name |-> "null", message |-> ""]
ErrHttp      == [isError |-> TRUE, name |-> "Error", message |-> "Flaggy API error: 500"]
ErrNetwork   == [isError |-> TRUE, name |-> "TypeError", message |-> "Failed to fetch"]
ErrAbort     == [isError |-> TRUE, name |-> "AbortError", message |-> "The operation was aborted"]
ErrLoadFailed == [isError |-> TRUE, name |-> "TypeError", message |-> "Load failed"]
ErrNonError  == [isError |-> FALSE, name |-> "string", message |-> "boom"]
ErrSSEStatus == [isError |-> TRUE, name |-> "Error", message |-> "SSE connection failed: 500"]
ErrSSENoBody == [isError |-> TRUE, name |-> "Error", message |-> "SSE response has no body"]

\* err instanceof Error ? err : new Error(String(err))
ToError(err) ==
    IF err.isError THEN err
    ELSE [isError |-> TRUE, name |-> "Error", message |-> err.message]

\* How a transport reports a fetch or body read that its signal aborted.
AbortRejections == {ErrAbort, ErrLoadFailed}

\* How a request that was not aborted can fail.
RequestFailures == {ErrHttp, ErrNonError}

\* ------------------------------------------------------------- Map<K, V>

\* A JavaScript Map: a sequence of entries in insertion order.
EmptyMap == <<>>

MapHas(m, k) == \E i \in 1..Len(m) : m[i].key = k

MapGet(m, k) ==
    IF MapHas(m, k)
    THEN m[CHOOSE i \in 1..Len(m) : m[i].key = k].value
    ELSE UNDEFINED

MapSet(m, k, val) ==
    IF MapHas(m, k)
    THEN [i \in 1..Len(m) |-> IF m[i].key = k THEN [key |-> k, value |-> val] ELSE m[i]]
    ELSE Append(m, [key |-> k, value |-> val])

MapKeys(m) == {m[i].key : i \in 1..Len(m)}

\* The references of the objects a map holds.
LiveRefs(m) == {m[i].value.ref : i \in {j \in 1..Len(m) : m[j].value.kind = "obj"}}

\* ------------------------------------------------------------------ state

VARIABLES
    enableStreaming,        \* options.enableStreaming ?? true
    context,                \* FlaggyClient.context
    cache,                  \* FlaggyClient.cache
    ready,                  \* FlaggyClient._ready
    error,                  \* FlaggyClient._error
    sseManager,             \* FlaggyClient.sseManager: "null" or "mgr"
    contextAbortController, \* id of the request owning it, 0 for null
    listeners,              \* FlaggyClient.listeners
    sse,                    \* the SSEManager created by startSSE
    initCalled,             \* initialize() has been called
    pending,                \* batch requests in flight
    nextId,                 \* id of the next request
    emitted,                \* emit() calls made by the last task, in order
    last,                   \* the last task that ran
    subscriptions,          \* unsubscribe closures returned by on(), not yet called
    manager,                \* an SSEManager driven directly by its caller
    stream,                 \* one run of SSEManager.readStream over a body
    provider,               \* the FlaggyProvider owning the client
    endpoint,               \* one client's serverUrl and the URL it requests
    backoff                 \* one call of SSEManager.getBackoffDelay

\* The variables of the client and of the stream manager it owns.
clientVars == <<enableStreaming, context, cache, ready, error, sseManager,
                contextAbortController, listeners, sse, initCalled, pending,
                nextId, emitted, last>>

vars == <<clientVars, subscriptions, manager, stream, provider, endpoint, backoff>>

EventNames == {"change", "ready", "error"}

\* ---------------------------------------------------------------- getFlag

\* Mutant of GetFlag: the readiness test of line 82 dropped.
GetFlagIgnoringReady(key, defaultValue) ==
    IF ~MapHas(cache, key) THEN defaultValue ELSE MapGet(cache, key)

GetFlag(key, defaultValue) ==
    IF ~ready \/ ~MapHas(cache, key) THEN defaultValue ELSE MapGet(cache, key)

\* ------------------------------------------------------------------- emit

\* One emit() call: the listeners of the event are invoked with the
\* arguments; seenCache and seenReady are what a listener reading the client
\* finds while it runs.
Emission(event, key, value, err, seenCache, seenReady) ==
    [event |-> event, key |-> key, value |-> value, error |-> err,
     to |-> listeners[event], cache |-> seenCache, ready |-> seenReady]

EmitChange(key, value, seenCache) ==
    Emission("change", key, value, NoError, seenCache, ready)

EmitReady(seenCache) ==
    Emission("ready", "", UNDEFINED, NoError, seenCache, TRUE)

EmitError(err) ==
    Emission("error", "", UNDEFINED, err, cache, ready)

\* -------------------------------------------------------- applyBatchResult

RECURSIVE BuildNewCache(_, _)
BuildNewCache(results, acc) ==
    IF results = <<>> THEN acc
    ELSE BuildNewCache(Tail(results),
                       MapSet(acc, Head(results).flag_key, Head(results).value))

\* Mutant of DifferingEmits: each entry is written into the stored cache
\* before its change event is emitted.
RECURSIVE DifferingEmitsInPlace(_, _, _)
DifferingEmitsInPlace(old, newCache, i) ==
    IF i > Len(newCache) THEN <<>>
    ELSE (IF ~StrictEquals(MapGet(old, newCache[i].key), newCache[i].value)
          THEN <<EmitChange(newCache[i].key, newCache[i].value,
                            MapSet(old, newCache[i].key, newCache[i].value))>>
          ELSE <<>>)
         \o DifferingEmitsInPlace(MapSet(old, newCache[i].key, newCache[i].value),
                                  newCache, i + 1)

\* Mutant of DifferingEmits: a change event for every key of the new cache,
\* whether or not its value differs.
RECURSIVE DifferingEmitsAll(_, _, _)
DifferingEmitsAll(old, newCache, i) ==
    IF i > Len(newCache) THEN <<>>
    ELSE <<EmitChange(newCache[i].key, newCache[i].value, old)>>
         \o DifferingEmitsAll(old, newCache, i + 1)

\* for (const [key, newValue] of newCache) ...
RECURSIVE DifferingEmits(_, _, _)
DifferingEmits(old, newCache, i) ==
    IF i > Len(newCache) THEN <<>>
    ELSE (IF ~StrictEquals(MapGet(old, newCache[i].key), newCache[i].value)
          THEN <<EmitChange(newCache[i].key, newCache[i].value, old)>>
          ELSE <<>>)
         \o DifferingEmits(old, newCache, i + 1)

\* for (const key of this.cache.keys()) ...
RECURSIVE RemovedEmits(_, _, _)
RemovedEmits(old, newCache, i) ==
    IF i > Len(old) THEN <<>>
    ELSE (IF ~MapHas(newCache, old[i].key)
          THEN <<EmitChange(old[i].key, UNDEFINED, old)>>
          ELSE <<>>)
         \o RemovedEmits(old, newCache, i + 1)

\* Mutant of ApplyBatchResult: the results are merged into the old cache
\* instead of replacing it.
ApplyBatchResultMerging(old, results) ==
    LET newCache == BuildNewCache(results, old)
    IN [cache |-> newCache,
        emits |-> DifferingEmits(old, newCache, 1) \o RemovedEmits(old, newCache, 1)]

\* The cache stored afterwards and the emit() calls made, in order.
ApplyBatchResult(old, results) ==
    LET newCache == BuildNewCache(results, EmptyMap)
    IN [cache |-> newCache,
        emits |-> DifferingEmits(old, newCache, 1) \o RemovedEmits(old, newCache, 1)]

\* -------------------------------------------------------------- requests

\* A batch request in flight (fetchApi): who issued it, the context in its
\* body, and whether the AbortSignal passed to fetch has been aborted
\* (initialize and handleSSEEvent pass no signal).  flags is options.flags,
\* which every request carries.
Request(id, kind, ctx) ==
    [id |-> id, kind |-> kind, flags |-> FlagOrder, context |-> ctx,
     aborted |-> FALSE]

NoRequest ==
    [id |-> 0, kind |-> "none", flags |-> FlagOrder, context |-> InitialContext,
     aborted |-> FALSE]

\* controller.abort() on the controller of request id (a no-op when null or
\* when the request has already settled).
Abort(reqs, id) ==
    {IF r.id = id THEN [r EXCEPT !.aborted = TRUE] ELSE r : r \in reqs}

\* The task that ran last: the operation, and for a continuation the request
\* that settled and how (a 2xx response or a rejection), with the parsed
\* results the continuation handed to applyBatchResult, if it did.
Task(op, req, ok, results, err) ==
    [op |-> op, req |-> req, ok |-> ok, results |-> results, err |-> err]

Call(op) == Task(op, NoRequest, FALSE, <<>>, NoError)

\* ------------------------------------------------------------- SSEManager

NoManager ==
    [created |-> FALSE, destroyed |-> FALSE, retryCount |-> 0,
     retryTimeout |-> FALSE, abortController |-> FALSE, phase |-> "idle"]

\* isAbortError (sse.ts)
IsAbortError(err) ==
    /\ err.isError
    /\ \/ err.name = "AbortError"
       \/ /\ err.name = "TypeError"
          /\ err.message \in {"Load failed", "cancelled"}

\* connect(): a new AbortController and a fetch of the stream endpoint.
Connect(m) ==
    IF m.destroyed THEN m
    ELSE [m EXCEPT !.abortController = TRUE, !.phase = "fetching"]

\* reconnect(): the retry counter is incremented and the timer armed.
Reconnect(m) ==
    IF m.destroyed THEN m
    ELSE [m EXCEPT !.retryCount = @ + 1, !.retryTimeout = TRUE]

\* destroy(): the fetch or read in progress is aborted, the timer cleared.
DestroyManager(m) ==
    [m EXCEPT !.destroyed = TRUE, !.abortController = FALSE,
              !.retryTimeout = FALSE, !.phase = "idle"]

\* ---------------------------------------------------- continuations' effect

\* The client fields a continuation leaves behind and the emit() calls it
\* makes.
Effect(c, r, e, emits) == [cache |-> c, ready |-> r, error |-> e, emits |-> emits]

\* Mutant of InitializeSettled: the client is marked Ready on failure too.
InitializeSettledAlwaysReady(ok, results, err) ==
    IF ok
    THEN LET applied == ApplyBatchResult(cache, results)
         IN Effect(applied.cache, TRUE, error,
                   applied.emits \o <<EmitReady(applied.cache)>>)
    ELSE Effect(cache, TRUE, ToError(err),
                <<Emission("error", "", UNDEFINED, ToError(err), cache, ready)>>)

\* initialize(), after the await: try body on success, catch on failure.
InitializeSettled(ok, results, err) ==
    IF ok
    THEN LET applied == ApplyBatchResult(cache, results)
         IN Effect(applied.cache, TRUE, error,
                   applied.emits \o <<EmitReady(applied.cache)>>)
    ELSE Effect(cache, ready, ToError(err),
                <<Emission("error", "", UNDEFINED, ToError(err), cache, ready)>>)

\* Mutant of SetContextSettled: the signal.aborted test of line 100 dropped.
SetContextSettledNoAbortCheck(req, ok, results, err) ==
    IF ok
    THEN LET applied == ApplyBatchResult(cache, results)
         IN Effect(applied.cache, ready, error, applied.emits)
    ELSE IF err.isError /\ err.name = "AbortError"
         THEN Effect(cache, ready, error, <<>>)
         ELSE Effect(cache, ready, ToError(err),
                     <<Emission("error", "", UNDEFINED, ToError(err), cache, ready)>>)

\* Mutant of SetContextSettled: a failed update puts the client back to
\* not Ready, as a failed initialize() leaves it.
SetContextSettledRevertsReady(req, ok, results, err) ==
    IF ok
    THEN IF req.aborted
         THEN Effect(cache, ready, error, <<>>)
         ELSE LET applied == ApplyBatchResult(cache, results)
              IN Effect(applied.cache, ready, error, applied.emits)
    ELSE IF err.isError /\ err.name = "AbortError"
         THEN Effect(cache, ready, error, <<>>)
         ELSE Effect(cache, FALSE, ToError(err),
                     <<Emission("error", "", UNDEFINED, ToError(err), cache, FALSE)>>)

\* setContext(), after the await.
SetContextSettled(req, ok, results, err) ==
    IF ok
    THEN IF req.aborted
         THEN Effect(cache, ready, error, <<>>)
         ELSE LET applied == ApplyBatchResult(cache, results)
              IN Effect(applied.cache, ready, error, applied.emits)
    ELSE IF err.isError /\ err.name = "AbortError"
         THEN Effect(cache, ready, error, <<>>)
         ELSE Effect(cache, ready, ToError(err),
                     <<Emission("error", "", UNDEFINED, ToError(err), cache, ready)>>)

\* Mutant of HandleSSEEventSettled: the response of the re-evaluation is
\* dropped.
HandleSSEEventSettledIgnored(ok, results, err) ==
    Effect(cache, ready, error, <<>>)

\* Mutant of HandleSSEEventSettled: a failed re-evaluation is surfaced the
\* way a failed context update is.
HandleSSEEventSettledSurfacing(ok, results, err) ==
    IF ok
    THEN LET applied == ApplyBatchResult(cache, results)
         IN Effect(applied.cache, ready, error, applied.emits)
    ELSE Effect(cache, ready, ToError(err),
                <<Emission("error", "", UNDEFINED, ToError(err), cache, ready)>>)

\* Mutant of HandleSSEEventSettled: a successful re-evaluation marks the
\* client Ready and announces it, as a successful initialize() does.
HandleSSEEventSettledMakingReady(ok, results, err) ==
    IF ok
    THEN LET applied == ApplyBatchResult(cache, results)
         IN Effect(applied.cache, TRUE, error,
                   applied.emits \o <<EmitReady(applied.cache)>>)
    ELSE Effect(cache, ready, error, <<>>)

\* handleSSEEvent(), after the await.
HandleSSEEventSettled(ok, results, err) ==
    IF ok
    THEN LET applied == ApplyBatchResult(cache, results)
         IN Effect(applied.cache, ready, error, applied.emits)
    ELSE Effect(cache, ready, error, <<>>)

\* Mutant of SSEOnError: a stream error is handled like an initialization
\* failure (error stored, client no longer Ready).
SSEOnErrorRevertsReady(err) ==
    Effect(cache, FALSE, err, <<Emission("error", "", UNDEFINED, err, cache, FALSE)>>)

\* startSSE(): the manager's onError callback, (err) => this.emit('error', err).
SSEOnError(err) == Effect(cache, ready, error, <<EmitError(err)>>)

\* ------------------------------------------- parts checked on their own

\* The task of an SSEManager that ran last: the operation, the connection it
\* concerned (0 for none), the rejection it handled and the error it passed
\* to onError (NoError for none).
ManagerTask(op, conn, err, reported) ==
    [op |-> op, conn |-> conn, err |-> err, reported |-> reported]

\* An SSEManager driven directly by its caller, after construction.  conns
\* are the fetches and read loops in progress, each with the state of the
\* AbortSignal it was started with; timers are the pending setTimeout
\* callbacks; abortController and retryTimeout are the fields (0 for null),
\* holding the id of a connection and of a timer.
IdleManager ==
    [destroyed |-> FALSE, retryCount |-> 0, abortController |-> 0,
     retryTimeout |-> 0, conns |-> {}, timers |-> {}, nextConn |-> 1,
     nextTimer |-> 1, last |-> ManagerTask("constructor", 0, NoError, NoError)]

\* The readStream run that is driven directly, before it is started.

IdleStream == [started |-> FALSE]

\* The URL of the batch endpoint is not followed.
NoEndpoint == [phase |-> "none"]

\* No call of getBackoffDelay is followed.
NoBackoff == [phase |-> "none"]

\* No FlaggyProvider is mounted: the client is driven by its caller.
NoProvider == [mounted |-> FALSE, context |-> InitialContext]

\* ---------------------------------------------------------------- actions

\* The state of the client after construction.
ClientInit(streaming) ==
    /\ enableStreaming \in streaming
    /\ context = InitialContext
    /\ cache = EmptyMap
    /\ ready = FALSE
    /\ error = NoError
    /\ sseManager = "null"
    /\ contextAbortController = 0
    /\ listeners = [e \in EventNames |-> {}]
    /\ sse = NoManager
    /\ initCalled = FALSE
    /\ pending = {}
    /\ nextId = 1
    /\ emitted = <<>>
    /\ last = Call("constructor")

Init ==
    /\ ClientInit(BOOLEAN)
    /\ subscriptions = {}
    /\ manager = IdleManager
    /\ stream = IdleStream
    /\ provider = NoProvider
    /\ endpoint = NoEndpoint
    /\ backoff = NoBackoff

\* The outcomes the transport can deliver for request r: a 2xx response
\* with a JSON body, or a rejection.
Failures(r) == IF r.aborted THEN AbortRejections ELSE RequestFailures

\* initialize(), up to the await of fetchApi.
Initialize ==
    /\ ~initCalled
    /\ nextId <= MaxRequests
    /\ initCalled' = TRUE
    /\ pending' = pending \cup {Request(nextId, "init", context)}
    /\ nextId' = nextId + 1
    /\ emitted' = <<>>
    /\ last' = Call("initialize")
    /\ UNCHANGED <<endpoint, backoff, provider, subscriptions, manager, stream, enableStreaming, context, cache, ready, error, sseManager,
                   contextAbortController, listeners, sse>>

\* Mutant of InitializeResume: startSSE() only when the request succeeded.
InitializeResumeStreamingOnSuccess(r, ok, wire, err) ==
    /\ r \in pending /\ r.kind = "init"
    /\ \E results \in {ParseJson(wire, LiveRefs(cache))} :
       \E eff \in {InitializeSettled(ok, results, err)} :
          /\ cache' = eff.cache
          /\ ready' = eff.ready
          /\ error' = eff.error
          /\ emitted' = eff.emits
          /\ last' = Task("initialize.settled", r, ok, results, err)
    /\ pending' = pending \ {r}
    /\ IF enableStreaming /\ ok
       THEN /\ sseManager' = "mgr"
            /\ sse' = Connect([NoManager EXCEPT !.created = TRUE])
       ELSE UNCHANGED <<sseManager, sse>>
    /\ UNCHANGED <<endpoint, backoff, provider, subscriptions, manager, stream, enableStreaming, context, contextAbortController, listeners,
                   initCalled, nextId>>

\* initialize() from the settling of its request to its end, startSSE()
\* included.
InitializeResume(r, ok, wire, err) ==
    /\ r \in pending /\ r.kind = "init"
    /\ \E results \in {ParseJson(wire, LiveRefs(cache))} :
       \E eff \in {InitializeSettled(ok, results, err)} :
          /\ cache' = eff.cache
          /\ ready' = eff.ready
          /\ error' = eff.error
          /\ emitted' = eff.emits
          /\ last' = Task("initialize.settled", r, ok, results, err)
    /\ pending' = pending \ {r}
    /\ IF enableStreaming
       THEN /\ sseManager' = "mgr"
            /\ sse' = Connect([NoManager EXCEPT !.created = TRUE])
       ELSE UNCHANGED <<sseManager, sse>>
    /\ UNCHANGED <<endpoint, backoff, provider, subscriptions, manager, stream, enableStreaming, context, contextAbortController, listeners,
                   initCalled, nextId>>

\* setContext(context), up to the await of fetchApi: what it does to the
\* client.
SetContextCalled(c) ==
    /\ nextId <= MaxRequests
    /\ context' = c
    /\ contextAbortController' = nextId
    /\ pending' = Abort(pending, contextAbortController)
                      \cup {Request(nextId, "setContext", c)}
    /\ nextId' = nextId + 1
    /\ emitted' = <<>>
    /\ last' = Call("setContext")
    /\ UNCHANGED <<enableStreaming, cache, ready, error, sseManager, listeners,
                   sse, initCalled>>

\* setContext(context) called by the owner of the client.
SetContext(c) ==
    /\ SetContextCalled(c)
    /\ UNCHANGED <<endpoint, backoff, provider, subscriptions, manager, stream>>

\* setContext() from the settling of its request to its end.
SetContextResume(r, ok, wire, err) ==
    /\ r \in pending /\ r.kind = "setContext"
    /\ \E results \in {ParseJson(wire, LiveRefs(cache))} :
       \E eff \in {SetContextSettled(r, ok, results, err)} :
          /\ cache' = eff.cache
          /\ ready' = eff.ready
          /\ error' = eff.error
          /\ emitted' = eff.emits
          /\ last' = Task("setContext.settled", r, ok,
                          IF r.aborted THEN <<>> ELSE results, err)
    /\ pending' = pending \ {r}
    /\ UNCHANGED <<endpoint, backoff, provider, subscriptions, manager, stream, enableStreaming, context, sseManager, contextAbortController,
                   listeners, sse, initCalled, nextId>>

\* Mutant of Destroy: the listener sets are left as they are.
DestroyKeepingListeners ==
    /\ sse' = IF sseManager = "mgr" THEN DestroyManager(sse) ELSE sse
    /\ sseManager' = "null"
    /\ pending' = Abort(pending, contextAbortController)
    /\ contextAbortController' = 0
    /\ emitted' = <<>>
    /\ last' = Call("destroy")
    /\ UNCHANGED <<endpoint, backoff, provider, subscriptions, listeners, manager, stream, enableStreaming,
                   context, cache, ready, error, initCalled, nextId>>

\* destroy().  The unsubscribe closures stay with the callers that hold them.
Destroy ==
    /\ sse' = IF sseManager = "mgr" THEN DestroyManager(sse) ELSE sse
    /\ sseManager' = "null"
    /\ pending' = Abort(pending, contextAbortController)
    /\ contextAbortController' = 0
    /\ listeners' = [e \in EventNames |-> {}]
    /\ emitted' = <<>>
    /\ last' = Call("destroy")
    /\ UNCHANGED <<endpoint, backoff, provider, subscriptions, manager, stream, enableStreaming, context, cache, ready, error, initCalled,
                   nextId>>

\* How a connection attempt of the stream can fail: a non-2xx status, a
\* response without body, or a rejected fetch.
ConnectFailures == {ErrSSEStatus, ErrLoadFailed}

\* How reader.read() can reject on a manager that is not destroyed.
ReadFailures == {ErrNetwork, ErrLoadFailed}

\* Types of the events the stream delivers.
StreamEventTypes == {"connected", "flag_updated"}

\* connect(): the fetch resolved with a 2xx response that has a body.
SSEOpen ==
    /\ sse.phase = "fetching"
    /\ sse' = [sse EXCEPT !.retryCount = 0, !.phase = "reading"]
    /\ emitted' = <<>>
    /\ last' = Call("sse.open")
    /\ UNCHANGED <<endpoint, backoff, provider, subscriptions, manager, stream, enableStreaming, context, cache, ready, error, sseManager,
                   contextAbortController, listeners, initCalled, pending, nextId>>

\* connect(): the catch handler; onError is the client's emit('error', err).
SSEConnectFail(err) ==
    /\ sse.phase = "fetching"
    /\ (sse.destroyed \/ IsAbortError(err) \/ sse.retryCount < MaxRetry)
    /\ \E eff \in {IF sse.destroyed \/ IsAbortError(err)
                    THEN Effect(cache, ready, error, <<>>)
                    ELSE SSEOnError(ToError(err))} :
          /\ cache' = eff.cache
          /\ ready' = eff.ready
          /\ error' = eff.error
          /\ emitted' = eff.emits
    /\ sse' = IF sse.destroyed \/ IsAbortError(err)
              THEN [sse EXCEPT !.phase = "idle"]
              ELSE Reconnect([sse EXCEPT !.phase = "idle"])
    /\ last' = Task("sse.connectFailed", NoRequest, FALSE, <<>>, err)
    /\ UNCHANGED <<endpoint, backoff, provider, subscriptions, manager, stream, enableStreaming, context, sseManager, contextAbortController,
                   listeners, initCalled, pending, nextId>>

\* readStream() delivers one decoded frame: onEvent is handleSSEEvent, which
\* runs up to the await of fetchApi.
SSEEvent(type) ==
    /\ sse.phase = "reading"
    /\ IF type = "connected"
       THEN UNCHANGED <<pending, nextId>>
       ELSE /\ nextId <= MaxRequests
            /\ pending' = pending \cup {Request(nextId, "sse", context)}
            /\ nextId' = nextId + 1
    /\ emitted' = <<>>
    /\ last' = Task("sse.event", NoRequest, type # "connected", <<>>, NoError)
    /\ UNCHANGED <<endpoint, backoff, provider, subscriptions, manager, stream, enableStreaming, context, cache, ready, error, sseManager,
                   contextAbortController, listeners, sse, initCalled>>

\* handleSSEEvent() from the settling of its request to its end.
HandleSSEEventResume(r, ok, wire, err) ==
    /\ r \in pending /\ r.kind = "sse"
    /\ \E results \in {ParseJson(wire, LiveRefs(cache))} :
       \E eff \in {HandleSSEEventSettled(ok, results, err)} :
          /\ cache' = eff.cache
          /\ ready' = eff.ready
          /\ error' = eff.error
          /\ emitted' = eff.emits
          /\ last' = Task("handleSSEEvent.settled", r, ok, results, err)
    /\ pending' = pending \ {r}
    /\ UNCHANGED <<endpoint, backoff, provider, subscriptions, manager, stream, enableStreaming, context, sseManager, contextAbortController,
                   listeners, sse, initCalled, nextId>>

\* readStream(): the server closed the stream (done), then reconnect().
SSEStreamEnd ==
    /\ sse.phase = "reading"
    /\ sse.retryCount < MaxRetry
    /\ sse' = Reconnect([sse EXCEPT !.phase = "idle"])
    /\ emitted' = <<>>
    /\ last' = Call("sse.streamEnd")
    /\ UNCHANGED <<endpoint, backoff, provider, subscriptions, manager, stream, enableStreaming, context, cache, ready, error, sseManager,
                   contextAbortController, listeners, initCalled, pending, nextId>>

\* readStream(): reader.read() rejected; the catch block, then reconnect().
SSEStreamError(err) ==
    /\ sse.phase = "reading"
    /\ (sse.destroyed \/ IsAbortError(err) \/ sse.retryCount < MaxRetry)
    /\ \E eff \in {IF sse.destroyed \/ IsAbortError(err)
                    THEN Effect(cache, ready, error, <<>>)
                    ELSE SSEOnError(ToError(err))} :
          /\ cache' = eff.cache
          /\ ready' = eff.ready
          /\ error' = eff.error
          /\ emitted' = eff.emits
    /\ sse' = IF sse.destroyed \/ IsAbortError(err)
              THEN [sse EXCEPT !.phase = "idle"]
              ELSE Reconnect([sse EXCEPT !.phase = "idle"])
    /\ last' = Task("sse.streamError", NoRequest, FALSE, <<>>, err)
    /\ UNCHANGED <<endpoint, backoff, provider, subscriptions, manager, stream, enableStreaming, context, sseManager, contextAbortController,
                   listeners, initCalled, pending, nextId>>

\* The reconnect timer fires: retryTimeout = null; connect().
SSETimer ==
    /\ sse.retryTimeout
    /\ sse' = Connect([sse EXCEPT !.retryTimeout = FALSE])
    /\ emitted' = <<>>
    /\ last' = Call("sse.timer")
    /\ UNCHANGED <<endpoint, backoff, provider, subscriptions, manager, stream, enableStreaming, context, cache, ready, error, sseManager,
                   contextAbortController, listeners, initCalled, pending, nextId>>

\* ------------------------------------------------------ on / unsubscribe

\* Listener functions a caller registers.
Fns == {"f", "g"}

\* The unsubscribe function returned by one on(event, listener) call: a
\* closure over the event and the listener; n tells apart the closures of
\* calls made with the same arguments.
Subscription(event, fn, n) == [event |-> event, fn |-> fn, n |-> n]

\* The smallest n no closure of (event, fn) held by a caller carries.
FreeSlot(event, fn) ==
    CHOOSE m \in 1..(MaxSubscriptions + 1) :
        /\ ~\E u \in subscriptions : u.event = event /\ u.fn = fn /\ u.n = m
        /\ \A l \in 1..(m - 1) :
              \E u \in subscriptions : u.event = event /\ u.fn = fn /\ u.n = l

\* on(event, listener): Set.add, and the unsubscribe closure is returned.
On(event, fn) ==
    /\ Cardinality(subscriptions) < MaxSubscriptions
    /\ listeners' = [listeners EXCEPT ![event] = @ \cup {fn}]
    /\ subscriptions' = subscriptions \cup {Subscription(event, fn, FreeSlot(event, fn))}
    /\ emitted' = <<>>
    /\ last' = Call("on")
    /\ UNCHANGED <<endpoint, backoff, provider, manager, stream, enableStreaming, context, cache, ready, error,
                   sseManager, contextAbortController, sse, initCalled, pending,
                   nextId>>

\* The unsubscribe closure u is called: Set.delete of its listener.
Unsubscribe(u) ==
    /\ u \in subscriptions
    /\ listeners' = [listeners EXCEPT ![u.event] = @ \ {u.fn}]
    /\ subscriptions' = subscriptions \ {u}
    /\ emitted' = <<>>
    /\ last' = Call("unsubscribe")
    /\ UNCHANGED <<endpoint, backoff, provider, manager, stream, enableStreaming, context, cache, ready, error,
                   sseManager, contextAbortController, sse, initCalled, pending,
                   nextId>>

Next ==
    \/ Initialize
    \/ \E r \in pending, w \in WireResults : InitializeResume(r, TRUE, w, NoError)
    \/ \E r \in pending : \E err \in Failures(r) : InitializeResume(r, FALSE, <<>>, err)
    \/ \E c \in {context + 1} : SetContext(c)
    \/ \E r \in pending, w \in WireResults : SetContextResume(r, TRUE, w, NoError)
    \/ \E r \in pending : \E err \in Failures(r) : SetContextResume(r, FALSE, <<>>, err)
    \/ Destroy
    \/ SSEOpen
    \/ \E err \in ConnectFailures : SSEConnectFail(err)
    \/ \E t \in StreamEventTypes : SSEEvent(t)
    \/ \E r \in pending, w \in WireResults : HandleSSEEventResume(r, TRUE, w, NoError)
    \/ \E r \in pending : \E err \in Failures(r) : HandleSSEEventResume(r, FALSE, <<>>, err)
    \/ SSEStreamEnd
    \/ \E err \in ReadFailures : SSEStreamError(err)
    \/ SSETimer

Spec == Init /\ [][Next]_vars

\* ---------------------------------------------------- SSEManager on its own

\* Connection attempts and pending reconnects still allowed by MaxConnects.
Budget(m) == (m.nextConn - 1) + Cardinality(m.timers) < MaxConnects

Connection(id, phase) == [id |-> id, phase |-> phase, aborted |-> FALSE]

\* Mutant of ManagerConnect: every attempt resets the retry counter.
ManagerConnectResetting(m) ==
    IF m.destroyed THEN m
    ELSE [m EXCEPT !.abortController = m.nextConn,
                   !.conns = @ \cup {Connection(m.nextConn, "fetching")},
                   !.nextConn = @ + 1,
                   !.retryCount = 0]

\* connect(): nothing when destroyed; else a new AbortController replaces the
\* stored one and a fetch is started with its signal.
ManagerConnect(m) ==
    IF m.destroyed THEN m
    ELSE [m EXCEPT !.abortController = m.nextConn,
                   !.conns = @ \cup {Connection(m.nextConn, "fetching")},
                   !.nextConn = @ + 1]

\* reconnect(): nothing when destroyed; else the counter is incremented and
\* a timer armed, its handle stored in retryTimeout.
ManagerReconnect(m) ==
    IF m.destroyed THEN m
    ELSE [m EXCEPT !.retryCount = @ + 1,
                   !.retryTimeout = m.nextTimer,
                   !.timers = @ \cup {m.nextTimer},
                   !.nextTimer = @ + 1]

\* destroy(): the stored controller is aborted and the stored timer cleared.
ManagerDestroy(m) ==
    [m EXCEPT !.destroyed = TRUE,
              !.conns = {IF c.id = m.abortController
                         THEN [c EXCEPT !.aborted = TRUE] ELSE c : c \in @},
              !.abortController = 0,
              !.timers = @ \ {m.retryTimeout},
              !.retryTimeout = 0]

\* The connection c is over: its fetch or its read loop has settled.
Closed(m, c) == [m EXCEPT !.conns = @ \ {c}]

\* A caller calls connect().
CallConnect ==
    /\ Budget(manager)
    /\ manager' = [ManagerConnect(manager) EXCEPT
                      !.last = ManagerTask("connect", 0, NoError, NoError)]
    /\ UNCHANGED <<endpoint, backoff, provider, clientVars, subscriptions, stream>>

\* A caller calls destroy().
CallDestroy ==
    /\ manager' = [ManagerDestroy(manager) EXCEPT
                      !.last = ManagerTask("destroy", 0, NoError, NoError)]
    /\ UNCHANGED <<endpoint, backoff, provider, clientVars, subscriptions, stream>>

\* The fetch of c resolved with a 2xx response that has a body: the then
\* handler resets the counter and starts readStream.
FetchResolved(c) ==
    /\ c \in manager.conns /\ c.phase = "fetching"
    /\ manager' = [manager EXCEPT
                      !.retryCount = 0,
                      !.conns = (@ \ {c}) \cup {[c EXCEPT !.phase = "reading"]},
                      !.last = ManagerTask("fetchResolved", c.id, NoError, NoError)]
    /\ UNCHANGED <<endpoint, backoff, provider, clientVars, subscriptions, stream>>

\* The rejections the transport can deliver for the fetch of c.
FetchRejections(c) ==
    IF c.aborted THEN AbortRejections ELSE ConnectFailures \cup {ErrSSENoBody}

\* Mutant of FetchRejected: the failure is not passed to onError.
FetchRejectedUnreported(c, err) ==
    /\ c \in manager.conns /\ c.phase = "fetching"
    /\ manager.destroyed \/ IsAbortError(err) \/ Budget(manager)
    /\ manager' =
          IF manager.destroyed \/ IsAbortError(err)
          THEN [Closed(manager, c) EXCEPT
                  !.last = ManagerTask("fetchRejected", c.id, err, NoError)]
          ELSE [ManagerReconnect(Closed(manager, c)) EXCEPT
                  !.last = ManagerTask("fetchRejected", c.id, err, NoError)]
    /\ UNCHANGED <<endpoint, backoff, provider, clientVars, subscriptions, stream>>

\* The fetch of c was rejected, or its response was not usable: the catch
\* handler of connect().
FetchRejected(c, err) ==
    /\ c \in manager.conns /\ c.phase = "fetching"
    /\ manager.destroyed \/ IsAbortError(err) \/ Budget(manager)
    /\ manager' =
          IF manager.destroyed \/ IsAbortError(err)
          THEN [Closed(manager, c) EXCEPT
                  !.last = ManagerTask("fetchRejected", c.id, err, NoError)]
          ELSE [ManagerReconnect(Closed(manager, c)) EXCEPT
                  !.last = ManagerTask("fetchRejected", c.id, err, ToError(err))]
    /\ UNCHANGED <<endpoint, backoff, provider, clientVars, subscriptions, stream>>

\* reader.read() of c resolved with a chunk: the continuation of readStream
\* is queued, and runs in a later task.
ReadResolved(c) ==
    /\ c \in manager.conns /\ c.phase = "reading" /\ ~c.aborted
    /\ manager' = [manager EXCEPT
                      !.conns = (@ \ {c}) \cup {[c EXCEPT !.phase = "chunk"]},
                      !.last = ManagerTask("readResolved", c.id, NoError, NoError)]
    /\ UNCHANGED <<endpoint, backoff, provider, clientVars, subscriptions, stream>>

\* What a run of the loop body of readStream did: the number of onEvent
\* calls it made, and how many of them it made after destroy() had returned.
ChunkTask(conn, events, afterDestroy) ==
    [op |-> "chunk", conn |-> conn, err |-> NoError, reported |-> NoError,
     events |-> events, afterDestroy |-> afterDestroy]

\* The continuation of readStream for a chunk of c holding k frames: the
\* lines are processed in one task and onEvent is called for each frame,
\* whatever destroyed is; the callback of frame d calls destroy() (none
\* does for d = 0).  The loop then calls reader.read() again.
ChunkProcessed(c, k, d) ==
    /\ c \in manager.conns /\ c.phase = "chunk"
    /\ d > 0 => ~manager.destroyed
    /\ \E m \in {[manager EXCEPT
                     !.conns = (@ \ {c}) \cup {[c EXCEPT !.phase = "reading"]}]} :
          manager' = [(IF d > 0 THEN ManagerDestroy(m) ELSE m) EXCEPT
                        !.last = ChunkTask(c.id, k,
                                           IF manager.destroyed THEN k
                                           ELSE IF d > 0 THEN k - d ELSE 0)]
    /\ UNCHANGED <<endpoint, backoff, provider, clientVars, subscriptions, stream>>

\* reader.read() of c reported done: the loop breaks, then reconnect() unless
\* destroyed.
StreamDone(c) ==
    /\ c \in manager.conns /\ c.phase = "reading"
    /\ manager.destroyed \/ Budget(manager)
    /\ manager' = [ManagerReconnect(Closed(manager, c)) EXCEPT
                      !.last = ManagerTask("streamDone", c.id, NoError, NoError)]
    /\ UNCHANGED <<endpoint, backoff, provider, clientVars, subscriptions, stream>>

\* The rejections the transport can deliver for reader.read() of c.
ReadRejections(c) == IF c.aborted THEN AbortRejections ELSE ReadFailures

\* reader.read() of c was rejected: the catch block of readStream, which
\* returns for a destroyed manager and for an abort error, and otherwise
\* reports the error and falls through to reconnect().
ReadRejected(c, err) ==
    /\ c \in manager.conns /\ c.phase = "reading"
    /\ manager.destroyed \/ IsAbortError(err) \/ Budget(manager)
    /\ manager' =
          IF manager.destroyed \/ IsAbortError(err)
          THEN [Closed(manager, c) EXCEPT
                  !.last = ManagerTask("readRejected", c.id, err, NoError)]
          ELSE [ManagerReconnect(Closed(manager, c)) EXCEPT
                  !.last = ManagerTask("readRejected", c.id, err, ToError(err))]
    /\ UNCHANGED <<endpoint, backoff, provider, clientVars, subscriptions, stream>>

\* The timer t fires: retryTimeout = null; connect().
TimerFires(t) ==
    /\ t \in manager.timers
    /\ manager' = [ManagerConnect([manager EXCEPT !.timers = @ \ {t},
                                                   !.retryTimeout = 0])
                      EXCEPT !.last = ManagerTask("timer", t, NoError, NoError)]
    /\ UNCHANGED <<endpoint, backoff, provider, clientVars, subscriptions, stream>>

\* Some pending timer fires.
SomeTimerFires == \E t \in manager.timers : TimerFires(t)

InitManager ==
    /\ ClientInit({TRUE})
    /\ subscriptions = {}
    /\ manager = IdleManager
    /\ stream = IdleStream
    /\ provider = NoProvider
    /\ endpoint = NoEndpoint
    /\ backoff = NoBackoff

NextManager ==
    \/ CallConnect
    \/ CallDestroy
    \/ \E c \in manager.conns : FetchResolved(c)
    \/ \E c \in manager.conns : \E err \in FetchRejections(c) : FetchRejected(c, err)
    \/ \E c \in manager.conns : ReadResolved(c)
    \/ \E c \in manager.conns : \E k \in 1..MaxChunkFrames : \E d \in 0..k :
          ChunkProcessed(c, k, d)
    \/ \E c \in manager.conns : StreamDone(c)
    \/ \E c \in manager.conns : \E err \in ReadRejections(c) : ReadRejected(c, err)
    \/ SomeTimerFires

SpecManager == InitManager /\ [][NextManager]_vars

\* Timers fire: a pending setTimeout callback eventually runs.
SpecManagerFair == SpecManager /\ WF_vars(SomeTimerFires)

\* ------------------------------------------------- readStream on its own

\* Text is a sequence of characters (strings of length one).
NL == "\n"

EventPrefix == <<"e", "v", "e", "n", "t", ":">>

DataPrefix == <<"d", "a", "t", "a", ":">>

\* String.prototype.startsWith
StartsWith(s, prefix) ==
    Len(s) >= Len(prefix) /\ SubSeq(s, 1, Len(prefix)) = prefix

\* String.prototype.slice(n)
Slice(s, n) == SubSeq(s, n + 1, Len(s))

\* String.prototype.trim
RECURSIVE Trim(_)
Trim(s) ==
    IF s = <<>> THEN s
    ELSE IF Head(s) = " " THEN Trim(Tail(s))
    ELSE IF s[Len(s)] = " " THEN Trim(SubSeq(s, 1, Len(s) - 1))
    ELSE s

\* String.prototype.split('\n'): the pieces between the line breaks, the one
\* after the last break included (empty when the text ends with a break).
RECURSIVE SplitLines(_, _, _)
SplitLines(s, line, lines) ==
    IF s = <<>> THEN Append(lines, line)
    ELSE IF Head(s) = NL THEN SplitLines(Tail(s), <<>>, Append(lines, line))
    ELSE SplitLines(Tail(s), Append(line, Head(s)), lines)

\* JavaScript's undefined as the type of an event.
NoType == <<"undefined">>

\* JSON.parse(data): an object with its type field, the value null, or a
\* SyntaxError.
ParseEvent(data) ==
    IF data = <<"{", "p", "}">> THEN [kind |-> "object", type |-> <<"p">>]
    ELSE IF data = <<"n", "u", "l", "l">> THEN [kind |-> "null", type |-> NoType]
    ELSE [kind |-> "SyntaxError", type |-> NoType]

\* The event handed to onEvent: its type, and the payload text it was
\* decoded from.
StreamEvent(type, data) == [type |-> type, data |-> data]

\* Mutant of HandleEvent: a type field of the payload wins over the event:
\* field.
HandleEventPayloadWins(eventType, data) ==
    LET parsed == ParseEvent(data)
    IN IF parsed.kind = "SyntaxError" THEN <<>>
       ELSE IF eventType # <<>> /\ parsed.kind = "null" THEN <<>>
       ELSE <<StreamEvent(parsed.type, data)>>

\* Mutant of HandleEvent: a payload that is not JSON is handed to onEvent as
\* it is.
HandleEventDeliveringRaw(eventType, data) ==
    LET parsed == ParseEvent(data)
    IN IF parsed.kind = "SyntaxError" THEN <<StreamEvent(NoType, data)>>
       ELSE IF eventType # <<>>
       THEN IF parsed.kind = "null" THEN <<>>
            ELSE <<StreamEvent(eventType, data)>>
       ELSE <<StreamEvent(parsed.type, data)>>

\* handleEvent(eventType, data): the onEvent calls it makes (none or one).
\* parsed.type = eventType throws a TypeError when parsed is null, and the
\* catch block skips the event.
HandleEvent(eventType, data) ==
    LET parsed == ParseEvent(data)
    IN IF parsed.kind = "SyntaxError" THEN <<>>
       ELSE IF eventType # <<>>
       THEN IF parsed.kind = "null" THEN <<>>
            ELSE <<StreamEvent(eventType, data)>>
       ELSE <<StreamEvent(parsed.type, data)>>

\* The locals of readStream, with the events delivered so far.
Reader(buffer, currentEvent, currentData, delivered) ==
    [buffer |-> buffer, currentEvent |-> currentEvent,
     currentData |-> currentData, delivered |-> delivered]

\* The body of the for loop of readStream for one line.
ProcessLine(r, line) ==
    IF StartsWith(line, EventPrefix)
    THEN [r EXCEPT !.currentEvent = Trim(Slice(line, Len(EventPrefix)))]
    ELSE IF StartsWith(line, DataPrefix)
    THEN [r EXCEPT !.currentData = Trim(Slice(line, Len(DataPrefix)))]
    ELSE IF line = <<>>
    THEN [r EXCEPT !.delivered = IF r.currentData # <<>>
                                 THEN @ \o HandleEvent(r.currentEvent, r.currentData)
                                 ELSE @,
                   !.currentEvent = <<>>,
                   !.currentData = <<>>]
    ELSE r

RECURSIVE ProcessLines(_, _)
ProcessLines(r, lines) ==
    IF lines = <<>> THEN r
    ELSE ProcessLines(ProcessLine(r, Head(lines)), Tail(lines))

\* One turn of the while loop of readStream for a chunk that was read: the
\* chunk is appended to the buffer, the buffer split, its last piece kept as
\* the new buffer and the other lines processed.
ProcessChunk(r, chunk) ==
    LET lines == SplitLines(r.buffer \o chunk, <<>>, <<>>)
    IN ProcessLines([r EXCEPT !.buffer = lines[Len(lines)]],
                    SubSeq(lines, 1, Len(lines) - 1))

\* A frame as a server writes it: an event: line (absent, with an empty
\* value, or naming the type "u"), a data: line (absent or with a payload)
\* and the blank line that ends it.
EventFields == {"absent", "empty", "u"}

Payloads == {<<"{", "p", "}">>, <<"n", "u", "l", "l">>, <<"x">>}

Frames == [event : EventFields, data : {<<>>} \cup Payloads]

WireFrame(f) ==
    (IF f.event = "absent" THEN <<>>
     ELSE IF f.event = "empty" THEN EventPrefix \o <<NL>>
     ELSE EventPrefix \o <<" ", f.event, NL>>)
    \o (IF f.data = <<>> THEN <<>> ELSE DataPrefix \o f.data \o <<NL>>)
    \o <<NL>>

RECURSIVE Wire(_)
Wire(frames) ==
    IF frames = <<>> THEN <<>> ELSE WireFrame(Head(frames)) \o Wire(Tail(frames))

FrameSeqs == UNION {[1..n -> Frames] : n \in 0..MaxFrames}

\* readStream(body) at its first read: the frames the server will write,
\* their text, the part of it read so far, and the locals.
StartStream(frames) ==
    [started |-> TRUE, frames |-> frames, text |-> Wire(frames), pos |-> 0,
     reader |-> Reader(<<>>, <<>>, <<>>, <<>>), done |-> FALSE]

\* reader.read() resolves with the next n characters of the body.
ReadChunk(n) ==
    /\ stream.started /\ ~stream.done
    /\ stream.pos + n <= Len(stream.text)
    /\ stream' = [stream EXCEPT
                     !.pos = @ + n,
                     !.reader = ProcessChunk(@, SubSeq(stream.text, stream.pos + 1,
                                                       stream.pos + n))]
    /\ UNCHANGED <<endpoint, backoff, provider, clientVars, subscriptions, manager>>

\* reader.read() resolves with done: the server closed the stream, wherever
\* it was in its text.
ReadDone ==
    /\ stream.started /\ ~stream.done
    /\ stream' = [stream EXCEPT !.done = TRUE]
    /\ UNCHANGED <<endpoint, backoff, provider, clientVars, subscriptions, manager>>

InitStream ==
    /\ ClientInit({TRUE})
    /\ subscriptions = {}
    /\ manager = IdleManager
    /\ provider = NoProvider
    /\ endpoint = NoEndpoint
    /\ backoff = NoBackoff
    /\ stream \in {StartStream(frames) : frames \in FrameSeqs}

NextStream ==
    \/ \E n \in 1..Len(stream.text) : ReadChunk(n)
    \/ ReadDone

SpecStream == InitStream /\ [][NextStream]_vars

\* ------------------------------------------------------- getBackoffDelay

\* JavaScript numbers (IEEE 754 doubles), as far as getBackoffDelay needs
\* them.  A finite number is kept exactly, in sixteenths of a millisecond,
\* when it is below a cap; a finite number at or above the cap is kept as a
\* multiple, in sixteenths, of an unknown number H >= cap; the other values
\* are Infinity, -Infinity and NaN.
Finite(n) == [kind |-> "finite", n |-> n]

Huge(n) == [kind |-> "huge", n |-> n]

Infinity == [kind |-> "Infinity", n |-> 1]

MinusInfinity == [kind |-> "Infinity", n |-> -1]

NaN == [kind |-> "NaN", n |-> 0]

\* Number.MAX_VALUE is below 2^1024: a product of 2^1024 or more is Infinity.
DoubleOverflowExponent == 1024

\* The exponent of the highest power of two that is at most m.
RECURSIVE Log2Floor(_)
Log2Floor(m) == IF m < 2 THEN 0 ELSE 1 + Log2Floor(m \div 2)

\* m * 2^e, or a number at or above the cap when the product is.
RECURSIVE Doubled(_, _, _)
Doubled(m, e, cap) ==
    IF e = 0 \/ m >= cap THEN m ELSE Doubled(2 * m, e - 1, cap)

\* retryDelay * Math.pow(2, retryCount)
TimesPow2(retryDelay, retryCount, cap) ==
    IF Log2Floor(retryDelay) + retryCount >= DoubleOverflowExponent THEN Infinity
    ELSE IF Doubled(retryDelay, retryCount, cap) >= cap THEN Huge(16)
    ELSE Finite(16 * Doubled(retryDelay, retryCount, cap))

\* delay * 0.25 * (Math.random() * 2 - 1), for Math.random() = random8 / 8:
\* the second factor is (random8 - 4) / 16.
TimesJitter(delay, random8) ==
    IF delay.kind \in {"finite", "huge"}
    THEN [delay EXCEPT !.n = (@ * (random8 - 4)) \div 16]
    ELSE IF random8 > 4 THEN Infinity
    ELSE IF random8 < 4 THEN MinusInfinity
    ELSE NaN

\* x + y, for a delay x and its jitter y.
Plus(x, y) ==
    IF x.kind = "Infinity"
    THEN IF y = x THEN x ELSE NaN
    ELSE [x EXCEPT !.n = @ + y.n]

\* Math.min(x, maxRetryDelay), with cap = 2 * maxRetryDelay: three quarters
\* of a number at or above the cap are above maxRetryDelay.
MathMin(x, maxRetryDelay) ==
    IF x.kind = "NaN" THEN NaN
    ELSE IF x.kind \in {"huge", "Infinity"} THEN Finite(16 * maxRetryDelay)
    ELSE IF x.n < 16 * maxRetryDelay THEN x
    ELSE Finite(16 * maxRetryDelay)

\* getBackoffDelay(), for Math.random() = random8 / 8.
GetBackoffDelay(retryDelay, maxRetryDelay, retryCount, random8) ==
    LET delay == TimesPow2(retryDelay, retryCount, 2 * maxRetryDelay)
        jitter == TimesJitter(delay, random8)
    IN MathMin(Plus(delay, jitter), maxRetryDelay)

\* options.retryDelay and options.maxRetryDelay, in milliseconds: the
\* defaults, a short base delay, and a ceiling below the base delay.
RetryDelays == {16, 1000}

MaxRetryDelays == {500, 30000}

\* The values of Math.random(), in eighths.
Randoms == 0..7

\* reconnect() on a manager that is not destroyed: the delay is computed
\* from the counter, the counter incremented and the timer armed.
ReconnectArmsTimer ==
    /\ backoff.phase = "reconnect"
    /\ \E random8 \in Randoms :
          backoff' = [backoff EXCEPT
                        !.phase = "armed",
                        !.random8 = random8,
                        !.retryCount = @ + 1,
                        !.delay = GetBackoffDelay(backoff.retryDelay,
                                                  backoff.maxRetryDelay,
                                                  backoff.retryCount, random8)]
    /\ UNCHANGED <<clientVars, subscriptions, manager, stream, provider, endpoint>>

InitBackoff ==
    /\ ClientInit({TRUE})
    /\ subscriptions = {}
    /\ manager = IdleManager
    /\ stream = IdleStream
    /\ provider = NoProvider
    /\ endpoint = NoEndpoint
    /\ backoff \in [phase : {"reconnect"}, retryDelay : RetryDelays,
                     maxRetryDelay : MaxRetryDelays, retryCount : 0..MaxRetryCount,
                     random8 : {0}, delay : {NaN}]

NextBackoff == ReconnectArmsTimer

SpecBackoff == InitBackoff /\ [][NextBackoff]_vars

\* ------------------------------------------------ the batch endpoint URL

\* options.serverUrl: texts made of slashes and of one other character.
ServerUrls == UNION {[1..n -> {"s", "/"}] : n \in 0..MaxUrlLen}

BatchPath == <<"/", "a", "p", "i", "/", "v", "1", "/", "e", "v", "a", "l", "u",
               "a", "t", "e", "/", "b", "a", "t", "c", "h">>

\* url.replace(/\/$/, ''): the first match of a slash at the end of the text
\* is removed.
StripTrailingSlash(url) ==
    IF url # <<>> /\ url[Len(url)] = "/" THEN SubSeq(url, 1, Len(url) - 1) ELSE url

\* new FlaggyClient({ serverUrl, ... })
Construct ==
    /\ endpoint.phase = "options"
    /\ endpoint' = [endpoint EXCEPT !.phase = "constructed",
                                    !.serverUrl = StripTrailingSlash(endpoint.option)]
    /\ UNCHANGED <<clientVars, subscriptions, manager, stream, provider, backoff>>

\* fetchApi('/api/v1/evaluate/batch', ...): the URL given to fetch.
FetchApi ==
    /\ endpoint.phase = "constructed"
    /\ endpoint' = [endpoint EXCEPT !.phase = "requested",
                                    !.url = endpoint.serverUrl \o BatchPath]
    /\ UNCHANGED <<clientVars, subscriptions, manager, stream, provider, backoff>>

InitEndpoint ==
    /\ ClientInit({TRUE})
    /\ subscriptions = {}
    /\ manager = IdleManager
    /\ stream = IdleStream
    /\ provider = NoProvider
    /\ backoff = NoBackoff
    /\ endpoint \in {[phase |-> "options", option |-> u, serverUrl |-> <<>>,
                       url |-> <<>>] : u \in ServerUrls}

NextEndpoint == Construct \/ FetchApi

SpecEndpoint == InitEndpoint /\ [][NextEndpoint]_vars

\* ------------------------------------------------------- FlaggyProvider

\* The first commit of FlaggyProvider: the first effect builds the client
\* from the props (the context prop is InitialContext), registers its ready
\* and error listeners and calls initialize(); the second effect finds the
\* client not ready and does nothing.
ProviderMount ==
    /\ ~provider.mounted
    /\ ~initCalled
    /\ provider' = [provider EXCEPT !.mounted = TRUE]
    /\ listeners' = [listeners EXCEPT !["ready"] = {"setReady"},
                                      !["error"] = {"setError"}]
    /\ initCalled' = TRUE
    /\ pending' = pending \cup {Request(nextId, "init", context)}
    /\ nextId' = nextId + 1
    /\ emitted' = <<>>
    /\ last' = Call("initialize")
    /\ UNCHANGED <<endpoint, backoff, subscriptions, manager, stream, enableStreaming, context,
                   cache, ready, error, sseManager, contextAbortController, sse>>

\* The parent renders the provider with a context prop that differs from
\* the last one by JSON.stringify: contextKey changes and the second effect
\* runs, calling setContext when the client is ready.  Every other render
\* (setReady, setError, an unchanged context) leaves contextKey as it was and
\* runs no effect.
ContextPropChanges(c) ==
    /\ provider.mounted
    /\ c <= MaxProps
    /\ provider' = [provider EXCEPT !.context = c]
    /\ IF ready THEN SetContextCalled(c) ELSE UNCHANGED clientVars
    /\ UNCHANGED <<endpoint, backoff, subscriptions, manager, stream>>

InitProvider == Init

NextProvider ==
    \/ ProviderMount
    \/ \E c \in {provider.context + 1} : ContextPropChanges(c)
    \/ \E r \in pending, w \in WireResults : InitializeResume(r, TRUE, w, NoError)
    \/ \E r \in pending : \E err \in Failures(r) : InitializeResume(r, FALSE, <<>>, err)
    \/ \E r \in pending, w \in WireResults : SetContextResume(r, TRUE, w, NoError)
    \/ \E r \in pending : \E err \in Failures(r) : SetContextResume(r, FALSE, <<>>, err)
    \/ SSEOpen
    \/ \E err \in ConnectFailures : SSEConnectFail(err)
    \/ \E t \in StreamEventTypes : SSEEvent(t)
    \/ \E r \in pending, w \in WireResults : HandleSSEEventResume(r, TRUE, w, NoError)
    \/ \E r \in pending : \E err \in Failures(r) : HandleSSEEventResume(r, FALSE, <<>>, err)
    \/ SSEStreamEnd
    \/ \E err \in ReadFailures : SSEStreamError(err)
    \/ SSETimer

SpecProvider == InitProvider /\ [][NextProvider]_vars

\* ------------------------------------------------ the client with listeners

\* Response bodies of the client observed through its listeners: no flag, or
\* flag "a" with value "x".
ObservedResults ==
    {w \in WireResults :
        \A i \in 1..Len(w) :
            w[i].flag_key = "a" /\ w[i].value = [kind |-> "prim", v |-> "x"]}

NextListeners ==
    \/ \E e \in EventNames, fn \in Fns : On(e, fn)
    \/ \E u \in subscriptions : Unsubscribe(u)
    \/ Initialize
    \/ \E r \in pending, w \in ObservedResults : InitializeResume(r, TRUE, w, NoError)
    \/ \E r \in pending : \E err \in Failures(r) : InitializeResume(r, FALSE, <<>>, err)
    \/ \E c \in {context + 1} : SetContext(c)
    \/ \E r \in pending, w \in ObservedResults : SetContextResume(r, TRUE, w, NoError)
    \/ \E r \in pending : \E err \in Failures(r) : SetContextResume(r, FALSE, <<>>, err)
    \/ Destroy
    \/ SSEOpen
    \/ \E err \in ConnectFailures : SSEConnectFail(err)
    \/ \E t \in StreamEventTypes : SSEEvent(t)
    \/ \E r \in pending, w \in ObservedResults : HandleSSEEventResume(r, TRUE, w, NoError)
    \/ \E r \in pending : \E err \in Failures(r) : HandleSSEEventResume(r, FALSE, <<>>, err)
    \/ SSEStreamEnd
    \/ \E err \in ReadFailures : SSEStreamError(err)
    \/ SSETimer

SpecListeners == Init /\ [][NextListeners]_vars

\* ====================================================================
\* Properties
\* ====================================================================

\* Keys a caller may ask for: the declared ones and one the server never
\* returns.
ProbeKeys == Keys \cup {"unknown"}

\* Default values a caller may pass: one that no response carries and one
\* equal to a primitive the server can return.
Defaults == {[kind |-> "prim", v |-> "default", ref |-> 0],
             [kind |-> "prim", v |-> "x", ref |-> 0]}

\* A default no cached value is equal to: getFlag returns it exactly when it
\* falls back.
Fallback == [kind |-> "prim", v |-> "default", ref |-> 0]

Settled == {"initialize.settled", "setContext.settled", "handleSSEEvent.settled"}

\* The task t delivered a 2xx response whose results carry key k.
DeliveredKey(t, k) ==
    /\ t.op \in Settled
    /\ t.ok
    /\ \E i \in 1..Len(t.results) : t.results[i].flag_key = k

\* The task t replaced the cache: a 2xx response that was not discarded.
Replaced(t) ==
    /\ t.op \in Settled
    /\ t.ok
    /\ ~(t.op = "setContext.settled" /\ t.req.aborted)

\* initialize() has been called and its request has settled.
InitializeResolved == initCalled /\ ~\E r \in pending : r.kind = "init"

ResultPairs(results) ==
    {<<results[i].flag_key, results[i].value>> : i \in 1..Len(results)}

MapPairs(m) == {<<m[i].key, m[i].value>> : i \in 1..Len(m)}

\* The positions of em that are emissions of event ev.
EmitsOf(em, ev) == {i \in 1..Len(em) : em[i].event = ev}

\* The positions of em that are change emissions for key k.
ChangesOf(em, k) == {i \in 1..Len(em) : em[i].event = "change" /\ em[i].key = k}

\* -------------------------------------------------------------------- C1
\* C1: getFlag(key, d) returns the cached value of key when the client is
\* Ready and the key is in the cache, and d itself otherwise; it returns d for
\* every key until initialize() has resolved, and a key starts being served
\* from the cache only in a task that delivered a successful batch response
\* carrying that key (so a key never present in one always yields d).
C1_GetFlagContract ==
    /\ [](\A k \in ProbeKeys, d \in Defaults :
            GetFlag(k, d) = IF ready /\ k \in MapKeys(cache)
                            THEN MapGet(cache, k) ELSE d)
    /\ [](~InitializeResolved =>
            \A k \in ProbeKeys, d \in Defaults : GetFlag(k, d) = d)
    /\ [][\A k \in ProbeKeys :
            (GetFlag(k, Fallback) # Fallback)' =>
                (GetFlag(k, Fallback) # Fallback \/ DeliveredKey(last', k))]_vars

\* A Ready client serving one key from the cache and falling back for another.
C1_Witness ==
    /\ ready
    /\ GetFlag("a", Fallback) # Fallback
    /\ GetFlag("b", Fallback) = Fallback
    /\ GetFlag("unknown", Fallback) = Fallback

\* -------------------------------------------------------------------- C2
\* C2: when initialize()'s batch request succeeds, the cache afterwards holds
\* exactly the flag_key -> value pairs of that response, the client is Ready,
\* the error field is what it was before, and that task emits ready exactly
\* once.
C2_InitializeSuccess ==
    [][(last'.op = "initialize.settled" /\ last'.ok) =>
          /\ MapPairs(cache') = ResultPairs(last'.results)
          /\ Len(cache') = Len(last'.results)
          /\ ready'
          /\ error' = error
          /\ Cardinality(EmitsOf(emitted', "ready")) = 1]_vars

\* initialize() succeeded on a client whose cache was not empty (a context
\* update had already filled it), and its response dropped a key.
C2_Witness ==
    /\ last.op = "initialize.settled"
    /\ last.ok
    /\ Len(last.results) = 1
    /\ ready
    /\ error = NoError
    /\ \E i \in 1..Len(emitted) :
          emitted[i].event = "change" /\ emitted[i].value = UNDEFINED

\* -------------------------------------------------------------------- C3
\* C3: when initialize()'s batch request fails (rejected fetch or non-2xx
\* status), the client is not Ready afterwards, the error is stored in the
\* error field, that task emits exactly one event, an error event carrying
\* the stored error, the cache is left as it was (empty on a fresh client) and
\* getFlag returns the default for every key.
C3_InitializeFailure ==
    [][(last'.op = "initialize.settled" /\ ~last'.ok) =>
          /\ ~ready'
          /\ error' = ToError(last'.err)
          /\ error' # NoError
          /\ Len(emitted') = 1
          /\ emitted'[1].event = "error"
          /\ emitted'[1].error = error'
          /\ cache' = cache
          /\ (pending = {last'.req} /\ nextId = 2 => cache' = EmptyMap)
          /\ \A k \in ProbeKeys, d \in Defaults : GetFlag(k, d)' = d]_vars

\* initialize() failed with HTTP 500 on a fresh client.
C3_Witness ==
    /\ last.op = "initialize.settled"
    /\ ~last.ok
    /\ last.err = ErrHttp
    /\ nextId = 2
    /\ ~ready
    /\ error = ErrHttp
    /\ cache = EmptyMap

\* -------------------------------------------------------------------- C4
\* C4: a task that replaces the cache (initialize, setContext or a
\* stream-triggered re-evaluation) emits exactly one change(key, newValue) for
\* each key of the new cache whose value is not strictly equal to the old
\* cache's value for that key (a fresh object is never equal to the old one),
\* exactly one change(key, undefined) for each key of the old cache missing
\* from the new one, and no other change event; a task that does not replace
\* the cache emits no change event.
C4_DiffRule ==
    [][/\ Replaced(last') =>
            \A k \in ProbeKeys :
                LET at == ChangesOf(emitted', k)
                IN IF MapHas(cache', k) /\ MapGet(cache, k) # MapGet(cache', k)
                   THEN /\ Cardinality(at) = 1
                        /\ \A i \in at : emitted'[i].value = MapGet(cache', k)
                   ELSE IF MapHas(cache, k) /\ ~MapHas(cache', k)
                   THEN /\ Cardinality(at) = 1
                        /\ \A i \in at : emitted'[i].value = UNDEFINED
                   ELSE at = {}
       /\ ~Replaced(last') => EmitsOf(emitted', "change") = {}]_vars

\* A stream-triggered re-evaluation replaced an object value by a
\* structurally equal but distinct object (reported as changed) and dropped
\* the other key (reported with undefined).
C4_Witness ==
    /\ last.op = "handleSSEEvent.settled"
    /\ Replaced(last)
    /\ Len(emitted) = 2
    /\ emitted[1].event = "change"
    /\ emitted[1].value.kind = "obj"
    /\ MapGet(emitted[1].cache, emitted[1].key).kind = "obj"
    /\ MapGet(emitted[1].cache, emitted[1].key).v = emitted[1].value.v
    /\ emitted[2].event = "change"
    /\ emitted[2].value = UNDEFINED

\* -------------------------------------------------------------------- C5
\* C5: whenever a listener runs (during an emit) or a getFlag caller runs
\* (between tasks), the stored cache is entirely the mapping held before the
\* task or entirely the mapping of the one batch response the task applied;
\* the stored cache changes only by such a replacement.
C5_AtomicReplacement ==
    [][/\ \A i \in 1..Len(emitted') : emitted'[i].cache \in {cache, cache'}
       /\ cache' # cache =>
            /\ Replaced(last')
            /\ MapPairs(cache') = ResultPairs(last'.results)]_vars

\* A replacement changed both keys: the listener of the first change event
\* saw the old two-key mapping, untouched.
C5_Witness ==
    /\ Replaced(last)
    /\ Len(cache) = 2
    /\ Len(emitted) >= 2
    /\ emitted[1].event = "change"
    /\ emitted[2].event = "change"
    /\ Len(emitted[1].cache) = 2
    /\ emitted[1].cache # cache
    /\ emitted[2].cache = emitted[1].cache

\* -------------------------------------------------------------------- C6
\* C6: when setContext(A) has been superseded by setContext(B) before A's
\* request settled, A's response, whenever it arrives and whatever it
\* carries, changes no cache entry and emits no change event, and B's
\* successful response makes the cache hold exactly B's results: the final
\* cache is B's response in either arrival order.
C6_ContextSupersession ==
    [][last'.op = "setContext.settled" =>
          IF last'.req.aborted
          THEN /\ cache' = cache
               /\ EmitsOf(emitted', "change") = {}
          ELSE last'.ok =>
               /\ MapPairs(cache') = ResultPairs(last'.results)
               /\ Len(cache') = Len(last'.results)]_vars

\* B's response arrived first and filled the cache; A's 2xx response arrived
\* afterwards and was discarded.
C6_Witness ==
    /\ last.op = "setContext.settled"
    /\ last.req.id = 1
    /\ last.req.aborted
    /\ last.ok
    /\ contextAbortController = 2
    /\ pending = {}
    /\ Len(cache) = 1
    /\ emitted = <<>>

\* -------------------------------------------------------------------- C7
\* C7 (as claimed): the settling of a batch request that was cancelled, by a
\* later setContext or by destroy(), leaves the cache, the readiness and the
\* error field as they were and emits no event.
C7_CancelledRequestIsInert ==
    [][(last'.op = "setContext.settled" /\ last'.req.aborted) =>
          /\ cache' = cache
          /\ ready' = ready
          /\ error' = error
          /\ emitted' = <<>>]_vars

\* -------------------------------------------------------------------- C8
\* C8 (as claimed): when a cancelled setContext request rejects because of
\* the abort, as an AbortError or as a TypeError saying the load failed, the
\* rejection is discarded: no error event, error field unchanged.
C8_AbortRejectionIsSilent ==
    [][(/\ last'.op = "setContext.settled"
        /\ last'.req.aborted
        /\ ~last'.ok
        /\ last'.err \in AbortRejections) =>
          /\ error' = error
          /\ emitted' = <<>>]_vars

\* -------------------------------------------------------------------- C9
\* C9: when a setContext request that was not cancelled fails, that task
\* emits exactly one event, an error event carrying the error (wrapped in an
\* Error when the rejection value is not one), and leaves the cache and the
\* readiness as they were.
C9_ContextUpdateFailure ==
    [][(/\ last'.op = "setContext.settled"
        /\ ~last'.ok
        /\ ~last'.req.aborted) =>
          /\ Len(emitted') = 1
          /\ emitted'[1].event = "error"
          /\ emitted'[1].error = ToError(last'.err)
          /\ cache' = cache
          /\ ready' = ready]_vars

\* A context update failed with HTTP 500 on a Ready client with a filled
\* cache.
C9_Witness ==
    /\ last.op = "setContext.settled"
    /\ ~last.ok
    /\ ~last.req.aborted
    /\ last.err = ErrHttp
    /\ ready
    /\ Len(cache) = 2
    /\ Len(emitted) = 1

\* ------------------------------------------------------------------- C10
\* C10: once the client is Ready it stays Ready, and a task that emits an
\* error event on a Ready client (stream connection or read error, failed
\* context update) leaves every getFlag result as it was.
C10_ReadyIsStable ==
    [][/\ ready => ready'
       /\ (ready /\ EmitsOf(emitted', "error") # {}) =>
            \A k \in ProbeKeys, d \in Defaults : GetFlag(k, d)' = GetFlag(k, d)]_vars

\* The stream connection failed on a Ready client: the error event was
\* emitted and the flag is still served from the cache.
C10_Witness ==
    /\ last.op = "sse.connectFailed"
    /\ ready
    /\ Len(emitted) = 1
    /\ emitted[1].event = "error"
    /\ emitted[1].error = ErrSSEStatus
    /\ GetFlag("a", Fallback) # Fallback

\* ------------------------------------------------------------------- C11
\* The change events em are exactly those the diff rule prescribes for the
\* replacement of the mapping old by the mapping new.
DiffRuleApplied(old, new, em) ==
    /\ \A i \in 1..Len(em) : em[i].event = "change"
    /\ \A k \in ProbeKeys :
          LET at == ChangesOf(em, k)
          IN IF MapHas(new, k) /\ ~StrictEquals(MapGet(old, k), MapGet(new, k))
             THEN Cardinality(at) = 1 /\ \A i \in at : em[i].value = MapGet(new, k)
             ELSE IF MapHas(old, k) /\ ~MapHas(new, k)
             THEN Cardinality(at) = 1 /\ \A i \in at : em[i].value = UNDEFINED
             ELSE at = {}

C12_ReevaluationFailureIsSwallowed ==
    [][(last'.op = "handleSSEEvent.settled" /\ ~last'.ok) =>
          /\ cache' = cache
          /\ ready' = ready
          /\ error' = error
          /\ emitted' = <<>>]_vars

\* A re-evaluation failed with HTTP 500 on a Ready client with a filled
\* cache and no stored error.
C12_Witness ==
    /\ last.op = "handleSSEEvent.settled"
    /\ ~last.ok
    /\ last.err = ErrHttp
    /\ ready
    /\ Len(cache) = 2
    /\ error = NoError
    /\ emitted = <<>>

\* ------------------------------------------------------------------- C13
\* The client has no open stream connection, no connection attempt in
\* progress and no pending reconnect timer.
NoStream == sse.phase = "idle" /\ ~sse.retryTimeout

\* C13 (as claimed): once destroy() has been called the client has no stream,
\* and none is started afterwards.  Stated for the task that runs right after
\* destroy(), whichever it is (the settling of initialize()'s request
\* included): destroy() leaves no stream, and the next task starts none.
C13_NoStreamAfterDestroy ==
    [][/\ last'.op = "destroy" => NoStream'
       /\ last.op = "destroy" => NoStream']_vars

\* ------------------------------------------------------------------- C14
\* C14: destroy() destroys the stream manager the client holds (no connection,
\* no attempt, no timer left), aborts the context request in flight, clears
\* the controller and empties the three listener sets, touching nothing else
\* and emitting nothing; a listener set only ever gains a member by on(), and
\* events are delivered to the members of the set, so a listener registered
\* before destroy() is not invoked afterwards; a destroy() right after a
\* destroy() changes nothing at all; and destroy() can be called in every
\* state, before initialize() included.
C14_DestroyContract ==
    [][/\ last'.op = "destroy" =>
            /\ sseManager' = "null"
            /\ IF sseManager = "mgr"
               THEN sse'.destroyed /\ NoStream'
               ELSE sse' = sse
            /\ {r.id : r \in pending'} = {r.id : r \in pending}
            /\ \A r \in pending' :
                  r.aborted <=> (r.id = contextAbortController
                                 \/ \E q \in pending : q.id = r.id /\ q.aborted)
            /\ contextAbortController' = 0
            /\ \A e \in EventNames : listeners'[e] = {}
            /\ <<context, cache, ready, error, initCalled>>'
                  = <<context, cache, ready, error, initCalled>>
            /\ emitted' = <<>>
       /\ (last.op = "destroy" /\ last'.op = "destroy") => clientVars' = clientVars
       /\ \A e \in EventNames :
             ~(listeners'[e] \subseteq listeners[e]) => last'.op = "on"
       /\ \A i \in 1..Len(emitted') :
             emitted'[i].to = listeners[emitted'[i].event]
       /\ ENABLED Destroy]_vars

\* destroy() ran on a client with a stream manager, a context request in
\* flight and a registered listener whose unsubscribe closure the caller
\* still holds: the manager is destroyed, the request aborted, the sets empty.
C14_Witness ==
    /\ last.op = "destroy"
    /\ sse.created
    /\ sse.destroyed
    /\ \E r \in pending : r.kind = "setContext" /\ r.aborted
    /\ subscriptions # {}
    /\ \A e \in EventNames : listeners[e] = {}

\* ------------------------------------------------------------------- C20
\* C20 (as claimed): every emission of an event invokes each listener
\* registered for it; a listener leaves its set only by the call of an
\* unsubscribe closure made for it or by destroy(); and calling one
\* unsubscribe closure removes its listener and leaves the listener of every
\* other closure still held, of the same event or of another, registered.
C20_SubscriptionsAreIndependent ==
    [][/\ \A i \in 1..Len(emitted') :
             emitted'[i].to = listeners[emitted'[i].event]
       /\ \A e \in EventNames, fn \in Fns :
             (fn \in listeners[e] /\ fn \notin listeners'[e]) =>
                \/ last'.op = "destroy"
                \/ /\ last'.op = "unsubscribe"
                   /\ \E u \in subscriptions \ subscriptions' :
                         u.event = e /\ u.fn = fn
       /\ last'.op = "unsubscribe" =>
             /\ \A u \in subscriptions \ subscriptions' :
                   u.fn \notin listeners'[u.event]
             /\ \A v \in subscriptions' :
                   v.fn \in listeners[v.event] => v.fn \in listeners'[v.event]]_vars

\* ------------------------------------------------------------------- C15
\* C15 (as claimed): destroy() leaves no reconnect timer pending; and on a
\* destroyed manager no connection attempt is ever started and no timer
\* armed, whatever happens (a connect() call, a fetch or a stream ending, a
\* timer left over), while a further connect() or destroy() changes nothing.
C15_DestroyedManagerStaysIdle ==
    [][/\ manager'.last.op = "destroy" =>
            /\ manager'.destroyed
            /\ manager'.timers = {}
            /\ manager'.retryTimeout = 0
       /\ manager.destroyed =>
            /\ manager'.destroyed
            /\ manager'.nextConn = manager.nextConn
            /\ {c.id : c \in manager'.conns} \subseteq {c.id : c \in manager.conns}
            /\ manager'.timers \subseteq manager.timers
            /\ manager'.last.op \in {"connect", "destroy"} =>
                  [manager' EXCEPT !.last = manager.last] = manager]_vars

\* ------------------------------------------------------------------- C16
\* C16 (as claimed): at any time a manager has at most one connection (a
\* fetch in progress or an open stream) that has not been aborted.
C16_AtMostOneConnection ==
    Cardinality({c \in manager.conns : ~c.aborted}) <= 1

\* ------------------------------------------------------------------- C17
\* A connection attempt failed, or a stream ended or broke, on a manager that
\* is not destroyed and has started n - 1 attempts so far.
Disconnected(n) ==
    /\ manager.last.op \in {"fetchRejected", "streamDone", "readRejected"}
    /\ ~manager.destroyed
    /\ manager.nextConn = n

\* C17 (as claimed): after such a failure a further connection attempt is
\* eventually started, unless the manager is destroyed first (timers fire).
C17_EveryFailureReconnects ==
    \A n \in 1..(MaxConnects + 1) :
        [](Disconnected(n) => <>(manager.destroyed \/ manager.nextConn > n))


\* ------------------------------------------------------- frames (C18, C19)

\* What readStream has after reading the given text in one chunk.
Unsplit(text) == ProcessChunk(Reader(<<>>, <<>>, <<>>, <<>>), text)

\* The frames whose blank line lies within the first `room` characters of
\* the text, restricted to those satisfying the given condition.
RECURSIVE TerminatedFrames(_, _, _)
TerminatedFrames(frames, room, objectsOnly) ==
    IF frames = <<>> \/ Len(WireFrame(Head(frames))) > room THEN <<>>
    ELSE LET f == Head(frames)
             json == ParseEvent(f.data).kind
             kept == /\ f.data # <<>>
                     /\ json # "SyntaxError"
                     /\ objectsOnly /\ f.event = "u" => json = "object"
         IN (IF kept THEN <<f>> ELSE <<>>)
            \o TerminatedFrames(Tail(frames), room - Len(WireFrame(f)), objectsOnly)

\* The event of a frame: the type of its event: line when that is not
\* empty, the type of the payload otherwise.
FrameEvent(f) ==
    StreamEvent(IF f.event = "u" THEN <<"u">> ELSE ParseEvent(f.data).type, f.data)

\* C18: however the text of the stream is split into chunks, the reader is
\* where it would be had the text read so far arrived in one chunk, and the
\* events delivered are, in wire order and once each, those of the frames
\* ended by a blank line whose payload decodes as JSON.
C18_ChunkingDoesNotChangeDelivery ==
    stream.started =>
        /\ stream.reader = Unsplit(SubSeq(stream.text, 1, stream.pos))
        /\ \E fs \in {TerminatedFrames(stream.frames, stream.pos, FALSE)} :
              /\ Len(stream.reader.delivered) = Len(fs)
              /\ \A i \in 1..Len(fs) : stream.reader.delivered[i] = FrameEvent(fs[i])

SameEntries(old, new, Same(_, _)) ==
    /\ MapKeys(old) = MapKeys(new)
    /\ \A k \in MapKeys(new) : Same(MapGet(old, k), MapGet(new, k))

\* A replacement of the cache emitted no change event and left every
\* getFlag result as it was (the task of initialize() also makes the client
\* Ready, which is what turns getFlag from the default to the cached value
\* when a setContext response filled the cache first).
SilentReplacement ==
    /\ EmitsOf(emitted', "change") = {}
    /\ \A k \in ProbeKeys, d \in Defaults :
          ready' = ready => StrictEquals(GetFlag(k, d)', GetFlag(k, d))

C22_LatestContextPropIsEvaluated ==
    provider.mounted /\ ready /\ pending = {} => context = provider.context

\* ------------------------------------------------------------------- C23
\* C23: the URL of a batch request is options.serverUrl, less the slash it
\* ends with if it ends with one, followed by /api/v1/evaluate/batch, and the
\* slash that starts the path is not preceded by another slash.
C23_EndpointHasNoDoubleSlash ==
    endpoint.phase = "requested" =>
        LET option == endpoint.option
            base == Len(endpoint.url) - Len(BatchPath)
        IN /\ endpoint.url =
                (IF option # <<>> /\ option[Len(option)] = "/"
                 THEN SubSeq(option, 1, Len(option) - 1)
                 ELSE option) \o BatchPath
           /\ base >= 1 => endpoint.url[base] # "/"

\* ------------------------------------------------------------------- C24
\* C24: the client has no stream manager until the request of initialize()
\* has settled; the task in which it settles, successfully or not, creates
\* the manager and connects it when streaming is enabled, and no other task
\* creates one; with streaming disabled no manager is ever created or
\* connected.
C24_StreamStartsAfterInitialize ==
    [][/\ last'.op = "initialize.settled" /\ enableStreaming =>
            /\ sseManager' = "mgr"
            /\ sse'.created /\ sse'.phase = "fetching"
       /\ (sseManager = "null" /\ sseManager' = "mgr") \/ (~sse.created /\ sse'.created) =>
            /\ last'.op = "initialize.settled"
            /\ enableStreaming
       /\ ~initCalled' \/ (\E r \in pending' : r.kind = "init") =>
            sseManager' = "null" /\ sse' = NoManager
       /\ ~enableStreaming => sseManager' = "null" /\ sse' = NoManager]_vars

\* The request of initialize() was rejected and the same task created and
\* connected the manager.
C24_Witness ==
    /\ last.op = "initialize.settled"
    /\ ~last.ok
    /\ error # NoError
    /\ enableStreaming
    /\ sseManager = "mgr"
    /\ sse.created /\ sse.phase = "fetching"

\* ------------------------------------------------------------------- C25
\* The responses connect() refuses: a status that is not 2xx, no body.
RefusedResponses == {ErrSSEStatus, ErrSSENoBody}

\* C25: when the fetch of a manager that is not destroyed resolves with a
\* status that is not 2xx or without a body, the same task calls onError once
\* with that Error and then arms exactly one reconnect timer, incrementing
\* the retry counter; the connection is over without having been read, and
\* no new connection is started by that task.
C25_RefusedResponseIsReportedAndRetried ==
    [][/\ manager'.last.op = "fetchRejected"
       /\ manager'.last.err \in RefusedResponses
       /\ ~manager.destroyed
       => /\ manager'.last.reported = manager'.last.err
          /\ manager'.last.reported.isError
          /\ Cardinality(manager'.timers \ manager.timers) = 1
          /\ manager.timers \subseteq manager'.timers
          /\ manager'.retryTimeout \in manager'.timers \ manager.timers
          /\ manager'.retryCount = manager.retryCount + 1
          /\ manager'.conns = {c \in manager.conns : c.id # manager'.last.conn}
          /\ \E c \in manager.conns :
                c.id = manager'.last.conn /\ c.phase = "fetching"
          /\ manager'.nextConn = manager.nextConn]_vars

\* A response without body was reported and one timer is pending.
C25_Witness ==
    /\ manager.last.op = "fetchRejected"
    /\ manager.last.err = ErrSSENoBody
    /\ manager.last.reported = ErrSSENoBody
    /\ ~manager.destroyed
    /\ Cardinality(manager.timers) = 1
    /\ manager.retryTimeout \in manager.timers
    /\ manager.conns = {}

\* ------------------------------------------------------------------- C26
\* C26: the retry counter becomes zero in the task in which a fetch resolves
\* with a usable response, and in no other task does it decrease or become
\* zero; it grows by exactly one in each task that arms a reconnect timer and
\* in no other task.  Hence after k attempts that each failed and armed the
\* next timer, with no successful open in between, the counter is k.
C26_RetryCounter ==
    [][/\ manager'.last.op = "fetchResolved" => manager'.retryCount = 0
       /\ manager'.timers \ manager.timers # {} =>
            /\ Cardinality(manager'.timers \ manager.timers) = 1
            /\ manager'.retryCount = manager.retryCount + 1
       /\ manager'.retryCount # manager.retryCount =>
            \/ manager'.last.op = "fetchResolved"
            \/ /\ manager'.timers \ manager.timers # {}
               /\ manager'.last.op \in {"fetchRejected", "streamDone", "readRejected"}]_vars

\* Two attempts were made, none opened, both failed: the counter is 2.
C26_Witness ==
    /\ manager.last.op = "fetchRejected"
    /\ manager.last.reported # NoError
    /\ manager.nextConn = 3
    /\ manager.conns = {}
    /\ manager.retryCount = 2

\* ------------------------------------------------------------------- C27
\* d = min(baseDelay * 2^retryCount, maxDelay), in milliseconds, for the
\* value the counter had before the increment.
CappedDelay(b) ==
    IF Doubled(b.retryDelay, b.retryCount - 1, b.maxRetryDelay) >= b.maxRetryDelay
    THEN b.maxRetryDelay
    ELSE Doubled(b.retryDelay, b.retryCount - 1, b.maxRetryDelay)

\* C27: the delay of an armed reconnect timer is a number that is at most
\* maxDelay, at least 75% of d and at most 125% of d (delays are in
\* sixteenths of a millisecond: 12 and 20 sixteenths of d).
C27_BackoffDelayIsBounded ==
    backoff.phase = "armed" =>
        /\ backoff.delay.kind = "finite"
        /\ backoff.delay.n <= 16 * backoff.maxRetryDelay
        /\ 12 * CappedDelay(backoff) <= backoff.delay.n
        /\ backoff.delay.n <= 20 * CappedDelay(backoff)

\* ------------------------------------------------------------------- C28
\* C28: when a fetch or a body read of the manager is rejected, the
\* rejection of one that the manager cancelled itself (its signal was
\* aborted) is not passed to onError, in either of the forms transports give
\* it, and the rejection of one that was not cancelled, on a manager that is
\* not destroyed, is passed to onError once (as an Error).
C28_OnlyOwnCancellationsAreSilent ==
    [][manager'.last.op \in {"fetchRejected", "readRejected"} =>
          \A c \in manager.conns :
              c.id = manager'.last.conn =>
                  /\ c.aborted => manager'.last.reported = NoError
                  /\ ~c.aborted /\ ~manager.destroyed =>
                        manager'.last.reported = ToError(manager'.last.err)]_vars

\* ------------------------------------------------------------------- C29
\* The payload of the frame, or of the event, is a JSON object.
HasObjectPayload(f) == ParseEvent(f.data).kind = "object"

\* The payload of the frame is not JSON.
Malformed(f) == f.data # <<>> /\ ParseEvent(f.data).kind = "SyntaxError"

\* C29: no event is delivered for a frame whose payload is not JSON, and
\* such a frame does not stop the reader: the frames with an object payload
\* ended so far have all been delivered, those that follow a malformed frame
\* included, and the loop goes on reading while the body has text left.
C29_MalformedFrameIsSkipped ==
    stream.started =>
        /\ \A i \in 1..Len(stream.reader.delivered) :
              ~Malformed(stream.reader.delivered[i])
        /\ SelectSeq(stream.reader.delivered, HasObjectPayload)
              = [i \in 1..Len(SelectSeq(TerminatedFrames(stream.frames, stream.pos, TRUE),
                                         HasObjectPayload)) |->
                    FrameEvent(SelectSeq(TerminatedFrames(stream.frames, stream.pos, TRUE),
                                         HasObjectPayload)[i])]
        /\ ~stream.done /\ stream.pos < Len(stream.text) => ENABLED ReadChunk(1)

\* A malformed frame was followed by a frame with an object payload, and the
\* event of the second frame is the only one delivered.
C29_Witness ==
    /\ stream.started
    /\ Len(stream.frames) = 2
    /\ Malformed(stream.frames[1])
    /\ HasObjectPayload(stream.frames[2])
    /\ stream.pos = Len(stream.text)
    /\ stream.reader.delivered = <<FrameEvent(stream.frames[2])>>

\* ------------------------------------------------------------------- C30
\* C30: when no request is in flight and the last task replaced the cache,
\* the response it applied was to a request made with the client's current
\* context: the cache is not the evaluation of an earlier context.
C30_CacheIsForCurrentContext ==
    pending = {} /\ Replaced(last) => last.req.context = context

\* ------------------------------------------------------------------- C31
\* getFlag(key, d) called by a listener while the emission e is delivered:
\* the cache and the readiness are those the listener finds.
GetFlagDuring(e, key, d) ==
    IF ~e.ready \/ ~MapHas(e.cache, key) THEN d ELSE MapGet(e.cache, key)

\* C31: while a change listener of a Ready client runs with (key, newValue),
\* getFlag(key, d) returns newValue, or d when newValue is undefined.
C31_ListenerReadsNewValue ==
    \A i \in 1..Len(emitted) :
        /\ emitted[i].event = "change"
        /\ emitted[i].to # {}
        /\ emitted[i].ready
        => \A d \in Defaults :
              GetFlagDuring(emitted[i], emitted[i].key, d)
                  = IF emitted[i].value = UNDEFINED THEN d ELSE emitted[i].value

\* ------------------------------------------------------------------- C32
\* C32: no callback is invoked after destroy() has returned: a task of a
\* destroyed manager reports no error, and a task that processes a chunk
\* makes no onEvent call after a destroy() call, whether destroy() was
\* called before the task (the chunk had been read already) or by the
\* callback of an earlier frame of the same chunk.
C32_NoCallbackAfterDestroy ==
    [][manager' # manager =>
          /\ manager.destroyed => manager'.last.reported = NoError
          /\ manager'.last.op = "chunk" => manager'.last.afterDestroy = 0]_vars

\* ------------------------------------------------------------------- C33
\* C33: the client becomes Ready only in the task that settles initialize()
\* with a 2xx response.  On a client that is not Ready, a context update or
\* a stream-triggered re-evaluation that replaces the cache leaves it not
\* Ready and emits no ready event, and getFlag returns the default for
\* every key, cached or not.
C33_ReadyOnlyThroughInitialize ==
    [][/\ ~ready /\ ready' => last'.op = "initialize.settled" /\ last'.ok
       /\ /\ ~ready
          /\ last' # last
          /\ last'.op \in {"setContext.settled", "handleSSEEvent.settled"}
          /\ Replaced(last')
          => /\ MapPairs(cache') = ResultPairs(last'.results)
             /\ ~ready'
             /\ EmitsOf(emitted', "ready") = {}
             /\ \A k \in ProbeKeys : \A d \in Defaults : GetFlag(k, d)' = d]_vars

\* initialize() has failed, and a stream-triggered re-evaluation has then
\* filled the cache of the client, which is still not Ready.
C33_Witness ==
    /\ InitializeResolved
    /\ ~ready
    /\ error # NoError
    /\ last.op = "handleSSEEvent.settled"
    /\ Replaced(last)
    /\ cache # <<>>

====
